---- MODULE Spec2Model ----
(***************************************************************************)
(* Model of pylayers/signal/DF.py: the class DF, a digital filter kept as  *)
(* coefficient arrays (b, a) and as root arrays (z, p) with a flag fir.    *)
(*                                                                         *)
(* Numbers.  numpy works on complex floating point numbers.  The model     *)
(* uses exact complex numbers (re + i*im) / 2^e, written <<re, im, e>>     *)
(* and kept normalised, so that products, conjugates, reciprocals and      *)
(* magnitudes of the values used below are exact and rounding plays no     *)
(* part ("up to tolerance" in the specification becomes equality).         *)
(***************************************************************************)
EXTENDS Integers, Sequences, FiniteSets, Bags, TLC

(***************************************************************************)
(* Bounds of the model.                                                    *)
(***************************************************************************)
\* longest root array handed to the z and p setters
MaxRoots == 1
\* most zeros, and most poles, of a cascade F1*F2 the model still composes
MaxDeg == 1
\* length of the signals and of the impulse response
SigLen == 2

(***************************************************************************)
(* Exact complex arithmetic.                                               *)
(***************************************************************************)
RECURSIVE Pow2(_)
Pow2(n) == IF n <= 0 THEN 1 ELSE 2 * Pow2(n - 1)

RECURSIVE CNorm(_)
CNorm(c) ==
    IF c[3] > 0 /\ c[1] % 2 = 0 /\ c[2] % 2 = 0
    THEN CNorm(<<c[1] \div 2, c[2] \div 2, c[3] - 1>>)
    ELSE c

CZero == <<0, 0, 0>>
COne  == <<1, 0, 0>>
CTwo  == <<2, 0, 0>>
CHalf == <<1, 0, 1>>
CI    == <<0, 1, 0>>
CMinusI == <<0, -1, 0>>

CAdd(x, y) ==
    LET e == IF x[3] >= y[3] THEN x[3] ELSE y[3]
        sx == Pow2(e - x[3])
        sy == Pow2(e - y[3])
    IN  CNorm(<<x[1] * sx + y[1] * sy, x[2] * sx + y[2] * sy, e>>)

CNeg(x) == <<-x[1], -x[2], x[3]>>

CSub(x, y) == CAdd(x, CNeg(y))

CMul(x, y) ==
    CNorm(<<x[1] * y[1] - x[2] * y[2], x[1] * y[2] + x[2] * y[1], x[3] + y[3]>>)

\* np.conj on one number
CConj(x) == <<x[1], -x[2], x[3]>>

\* squared magnitude times 4^e
CNorm2(x) == x[1] * x[1] + x[2] * x[2]

\* abs(x) <= 1
AbsLeqOne(x) == CNorm2(x) <= Pow2(2 * x[3])

\* abs(x) > 1
AbsGtOne(x) == CNorm2(x) > Pow2(2 * x[3])

RECURSIVE Log2(_)
Log2(n) == IF n <= 1 THEN 0 ELSE 1 + Log2(n \div 2)

IsPow2(n) == n >= 1 /\ Pow2(Log2(n)) = n

\* 1/x for x # 0 whose squared magnitude is a power of two (all the leading
\* denominator coefficients of the model are): conj(x) / |x|^2
CInv(x) ==
    LET m == Log2(CNorm2(x))
    IN  IF m >= x[3]
        THEN CNorm(<<x[1], -x[2], m - x[3]>>)
        ELSE <<x[1] * Pow2(x[3] - m), -x[2] * Pow2(x[3] - m), 0>>

CDiv(x, y) == CMul(x, CInv(y))

(***************************************************************************)
(* Arrays.  A one-dimensional numpy array is a sequence of numbers,        *)
(* highest power first for coefficients.  Bad2D stands for an array with   *)
(* two dimensions that is not square, such as np.zeros((2,3)): np.poly1d   *)
(* and np.poly raise ValueError on it.                                     *)
(***************************************************************************)
Bad2D == << <<0, 0, -1>> >>

IsBad(c) == c = Bad2D

\* c[::-1]
Reverse(c) == [k \in 1..Len(c) |-> c[Len(c) + 1 - k]]

\* np.conj(c)
ConjSeq(c) == [k \in 1..Len(c) |-> CConj(c[k])]

\* np.hstack((r1, r2))
HStack(r1, r2) == r1 \o r2

RECURSIVE Zeros(_)
\* np.zeros(n)
Zeros(n) == IF n <= 0 THEN <<>> ELSE <<CZero>> \o Zeros(n - 1)

RECURSIVE TrimF(_)
\* np.trim_zeros(c, trim='f')
TrimF(c) == IF c # <<>> /\ Head(c) = CZero THEN TrimF(Tail(c)) ELSE c

RECURSIVE TrimB(_)
\* the array without its trailing zeros
TrimB(c) ==
    IF c # <<>> /\ c[Len(c)] = CZero THEN TrimB(SubSeq(c, 1, Len(c) - 1)) ELSE c

\* np.poly1d(c).coeffs: leading zeros dropped, the empty array read as [0]
Poly1dCoeffs(c) == IF TrimF(c) = <<>> THEN <<CZero>> ELSE TrimF(c)

RECURSIVE Horner(_, _)
\* the value at r of the polynomial with coefficients c
Horner(c, r) ==
    IF c = <<>> THEN CZero
    ELSE CAdd(CMul(Horner(SubSeq(c, 1, Len(c) - 1), r), r), c[Len(c)])

RECURSIVE DeflateAcc(_, _, _)
DeflateAcc(c, r, acc) ==
    IF Len(c) <= 1 THEN acc
    ELSE LET q == IF acc = <<>> THEN Head(c)
                  ELSE CAdd(Head(c), CMul(r, acc[Len(acc)]))
         IN  DeflateAcc(Tail(c), r, Append(acc, q))

\* the quotient of the polynomial c by (x - r), r a root of c
Deflate(c, r) == DeflateAcc(c, r, <<>>)

\* the non-zero values the eigenvalue search tries, in this order
EigCands == <<CI, CMinusI, CTwo, CHalf>>

RECURSIVE Eig(_)
\* the eigenvalues of the companion matrix of c (c[1] # 0, c[Len(c)] # 0):
\* the roots of c with their multiplicity, found one at a time by trial and
\* deflation; the order numpy returns them in is not modelled
Eig(c) ==
    IF Len(c) <= 1 THEN <<>>
    ELSE LET hits == {k \in 1..Len(EigCands) : Horner(c, EigCands[k]) = CZero}
         IN  IF hits = {} THEN <<>>
             ELSE LET k == CHOOSE h \in hits : \A g \in hits : h <= g
                  IN  <<EigCands[k]>> \o Eig(Deflate(c, EigCands[k]))

\* np.roots(c): leading and trailing zeros stripped, the roots of what is
\* left followed by one zero root for every trailing zero; none for all zeros
NpRoots(c) ==
    LET core == TrimB(TrimF(c))
    IN  IF core = <<>> THEN <<>>
        ELSE HStack(Eig(core), Zeros(Len(TrimF(c)) - Len(core)))

\* np.poly1d(c).r
Poly1dRoots(c) == NpRoots(Poly1dCoeffs(c))

\* np.convolve(c, [1, -r]): the product of the polynomial c by (x - r)
ConvLin(c, r) ==
    [k \in 1..(Len(c) + 1) |->
        CSub(IF k <= Len(c) THEN c[k] ELSE CZero,
             IF k >= 2 THEN CMul(r, c[k - 1]) ELSE CZero)]

RECURSIVE NpPolyAcc(_, _)
NpPolyAcc(rs, acc) ==
    IF rs = <<>> THEN acc ELSE NpPolyAcc(Tail(rs), ConvLin(acc, Head(rs)))

\* np.poly(rs): the coefficients of the monic polynomial with the roots rs
NpPoly(rs) == NpPolyAcc(rs, <<COne>>)

\* np.poly1d(rs, r=True).c
Poly1dFromRoots(rs) == Poly1dCoeffs(NpPoly(rs))

(***************************************************************************)
(* The class DF.  An object is a record of its attributes _b, _a, _z, _p   *)
(* and fir.  A call that can raise returns [ok, f]: whether it returned    *)
(* normally, and the object as the call left it.                           *)
(***************************************************************************)
\* the attributes of DF(): b = a = np.array([1])
DefaultDF == [b |-> <<COne>>, a |-> <<COne>>, z |-> <<>>, p |-> <<>>, fir |-> TRUE]

\* a.setter
set_a(f, a) ==
    LET f1 == [f EXCEPT !.a = a]
    IN  IF IsBad(a) THEN [ok |-> FALSE, f |-> f1]
        ELSE [ok |-> TRUE,
              f  |-> [f1 EXCEPT !.p = Poly1dRoots(a), !.fir = (Len(a) = 1)]]

\* a variant of the b setter that stores b and leaves the zeros as they were
set_b_keeps_z(f, b) ==
    IF IsBad(b) THEN [ok |-> FALSE, f |-> [f EXCEPT !.b = b]]
    ELSE [ok |-> TRUE, f |-> [f EXCEPT !.b = b]]

\* b.setter
set_b(f, b) ==
    LET f1 == [f EXCEPT !.b = b]
    IN  IF IsBad(b) THEN [ok |-> FALSE, f |-> f1]
        ELSE [ok |-> TRUE, f |-> [f1 EXCEPT !.z = Poly1dRoots(b)]]

\* p.setter
set_p(f, p) ==
    LET f1 == [f EXCEPT !.p = p]
    IN  IF IsBad(p) THEN [ok |-> FALSE, f |-> f1]
        ELSE [ok |-> TRUE, f |-> [f1 EXCEPT !.a = Poly1dFromRoots(p)]]

\* z.setter
set_z(f, z) ==
    LET f1 == [f EXCEPT !.z = z]
    IN  IF IsBad(z) THEN [ok |-> FALSE, f |-> f1]
        ELSE [ok |-> TRUE, f |-> [f1 EXCEPT !.b = Poly1dFromRoots(z)]]

\* DF.__init__(b, a): self.b = b, then self.a = a; both setters assign every
\* attribute, so the object they start from does not show
NewDF(b, a) ==
    LET sb == set_b(DefaultDF, b)
        sa == set_a(sb.f, a)
    IN  [ok |-> sb.ok /\ sa.ok, f |-> sa.f]

(***************************************************************************)
(* What a method gives back: kind is "none" (the method returned None),    *)
(* "filter" (F1), "pair" (F1, F2), "signal" (y) or "raise" (an exception   *)
(* left the method).  The fields a kind does not use hold fillers.         *)
(***************************************************************************)
Ret(kind, F1, F2, y) == [kind |-> kind, F1 |-> F1, F2 |-> F2, y |-> y]

RetNone == Ret("none", DefaultDF, DefaultDF, <<>>)
RetRaise == Ret("raise", DefaultDF, DefaultDF, <<>>)
RetFilter(F) == Ret("filter", F, DefaultDF, <<>>)
RetPair(F1, F2) == Ret("pair", F1, F2, <<>>)
RetSignal(y) == Ret("signal", DefaultDF, DefaultDF, y)

\* DF.__mul__(self, df): the object self and the operand df as the call
\* leaves them, and what it returns
Mul(self, df) ==
    IF IsBad(self.b) \/ IsBad(self.a) \/ IsBad(df.b) \/ IsBad(df.a)
    THEN [self |-> self, df |-> df, ret |-> RetRaise]
    ELSE LET rpb1 == Poly1dRoots(self.b)
             rpb2 == Poly1dRoots(df.b)
             rpa1 == Poly1dRoots(self.a)
             rpa2 == Poly1dRoots(df.a)
             Fp == set_p(DefaultDF, HStack(rpa1, rpa2)).f
             Fz == set_z(Fp, HStack(rpb1, rpb2)).f
         IN  [self |-> self, df |-> df, ret |-> RetFilter(Fz)]

\* a variant of flipc that reverses the object's own arrays
FlipcInPlace(self) ==
    IF IsBad(self.a) \/ IsBad(self.b)
    THEN [self |-> self, ret |-> RetRaise]
    ELSE LET G == set_b(set_a(self, Reverse(self.a)).f, Reverse(self.b)).f
         IN  [self |-> G, ret |-> RetFilter(G)]

\* DF.flipc(self)
Flipc(self) ==
    IF IsBad(self.a) \/ IsBad(self.b)
    THEN [self |-> self, ret |-> RetRaise]
    ELSE LET Fa == set_a(DefaultDF, Reverse(self.a)).f
             Fb == set_b(Fa, Reverse(self.b)).f
         IN  [self |-> self, ret |-> RetFilter(Fb)]

\* DF.match(self)
Match(self) ==
    IF self.fir
    THEN IF IsBad(self.b) \/ IsBad(self.a)
         THEN [self |-> self, ret |-> RetRaise]
         ELSE LET Mb == set_b(DefaultDF, ConjSeq(Reverse(self.b))).f
                  Ma == set_a(Mb, self.a).f
              IN  [self |-> self, ret |-> RetFilter(Ma)]
    ELSE [self |-> self, ret |-> RetNone]

\* DF.factorize(self)
Factorize(self) ==
    IF self.fir
    THEN IF IsBad(self.z)
         THEN [self |-> self, ret |-> RetRaise]
         ELSE LET \* z[np.where(abs(z)<=1)[0]], z[np.where(abs(z)>1)[0]]
                  zi == SelectSeq(self.z, AbsLeqOne)
                  ze == SelectSeq(self.z, AbsGtOne)
                  bi == Poly1dFromRoots(zi)
                  be == Poly1dFromRoots(ze)
                  F1 == NewDF(bi, <<COne>>).f
                  F2 == NewDF(be, <<COne>>).f
              IN  [self |-> self, ret |-> RetPair(F1, F2)]
    ELSE [self |-> self, ret |-> RetNone]

RECURSIVE DotRev(_, _, _, _)
\* c[from]*v[n-from+1] + ... + c[to]*v[n-to+1]
DotRev(c, v, n, k) ==
    IF k[1] > k[2] THEN CZero
    ELSE CAdd(CMul(c[k[1]], v[n - k[1] + 1]), DotRev(c, v, n, <<k[1] + 1, k[2]>>))

Min(m, n) == IF m <= n THEN m ELSE n

RECURSIVE LFilterAcc(_, _, _, _)
LFilterAcc(b, a, x, y) ==
    IF Len(y) = Len(x) THEN y
    ELSE LET n == Len(y) + 1
             ff == DotRev(b, x, n, <<1, Min(n, Len(b))>>)
             fb == DotRev(a, y \o <<CZero>>, n, <<2, Min(n, Len(a))>>)
         IN  LFilterAcc(b, a, x, Append(y, CDiv(CSub(ff, fb), a[1])))

\* scipy.signal.lfilter(b, a, x) from rest, for one-dimensional b and a
\* with a[0] # 0: y[n] = (sum b[k] x[n-k] - sum_{k>=1} a[k] y[n-k]) / a[0]
LFilter(b, a, x) == LFilterAcc(b, a, x, <<>>)

\* whether lfilter(b, a, x) raises instead: an array of two dimensions, an
\* empty array, or a[0] = 0
LFilterRaises(b, a) ==
    IsBad(b) \/ IsBad(a) \/ b = <<>> \/ a = <<>> \/ a[1] = CZero

\* DF.filter(self, x, causal): the object and the caller's array x as the
\* call leaves them, and what it returns
Filter(self, x, causal) ==
    IF LFilterRaises(self.b, self.a)
    THEN [self |-> self, x |-> x, ret |-> RetRaise]
    ELSE LET xx == IF causal THEN x ELSE Reverse(x)
             y  == LFilter(self.b, self.a, xx)
         IN  [self |-> self, x |-> x,
              ret |-> RetSignal(IF causal THEN y ELSE Reverse(y))]

\* DF.ir(self, N), N >= 1, show = False
Ir(self, N) ==
    LET ip == <<COne>> \o Zeros(N - 1)
        r  == Filter(self, ip, TRUE)
    IN  [self |-> r.self, ret |-> r.ret]

(***************************************************************************)
(* The arrays the calling program hands to the class.                      *)
(***************************************************************************)
\* gain * c
Scale(g, c) == [k \in 1..Len(c) |-> CMul(g, c[k])]

\* the values of the zeros the caller writes: inside, on and outside the
\* unit circle
ZeroVals == {CZero, CI, CTwo}

\* the values of the poles the caller writes
PoleVals == {CHalf}

\* the arrays handed to the z setter
ZIn == UNION {[1..n -> ZeroVals] : n \in 0..MaxRoots} \cup {Bad2D}

\* the arrays handed to the p setter
PIn == UNION {[1..n -> PoleVals] : n \in 0..MaxRoots} \cup {Bad2D}

\* the arrays handed to the b setter: empty, all zero, a gain, a complex
\* root, a leading zero before a gain and a root outside the unit circle
BIn ==
    { <<>>, <<CZero>>, <<CTwo>>, <<COne, CMinusI>>,
      <<CZero, CTwo, <<-4, 0, 0>>>>, Bad2D }

\* the arrays handed to the a setter: no pole, one pole (the demo at the
\* end of DF.py with 1/2 for 0.77)
AIn == { <<COne>>, <<COne, <<-1, 0, 1>>>>, Bad2D }

\* the pairs (b, a) handed to DF(b, a): the defaults, the demo's filter, and
\* a malformed numerator
CtorIn ==
    { <<<<COne>>, <<COne>>>>,
      <<<<COne, CZero>>, <<COne, <<-1, 0, 1>>>>>>,
      <<Bad2D, <<COne>>>> }

\* the signal the caller holds
SigIn == {[k \in 1..SigLen |-> IF k = 1 THEN COne ELSE CI]}

(***************************************************************************)
(* State: the caller's filter object f, the caller's signal array x, what  *)
(* the last call gave back (ret), and the name of the last call (op).      *)
(* The caller keeps a result until its next setter or constructor call.    *)
(***************************************************************************)
VARIABLES f, x, ret, op

vars == <<f, x, ret, op>>

Init ==
    /\ f = DefaultDF
    /\ x \in SigIn
    /\ ret = RetNone
    /\ op = "DF"

\* f = DF(b, a)
Construct(b, a) ==
    LET r == NewDF(b, a)
    IN  /\ f' = IF r.ok THEN r.f ELSE f
        /\ ret' = IF r.ok THEN RetNone ELSE RetRaise
        /\ op' = "DF"
        /\ UNCHANGED x

\* f.b = c
SetB(c) ==
    /\ LET r == set_b(f, c)
       IN  f' = r.f /\ ret' = (IF r.ok THEN RetNone ELSE RetRaise)
    /\ op' = "set_b"
    /\ UNCHANGED x

\* f.a = c
SetA(c) ==
    /\ LET r == set_a(f, c)
       IN  f' = r.f /\ ret' = (IF r.ok THEN RetNone ELSE RetRaise)
    /\ op' = "set_a"
    /\ UNCHANGED x

\* f.z = c
SetZ(c) ==
    /\ LET r == set_z(f, c)
       IN  f' = r.f /\ ret' = (IF r.ok THEN RetNone ELSE RetRaise)
    /\ op' = "set_z"
    /\ UNCHANGED x

\* f.p = c
SetP(c) ==
    /\ LET r == set_p(f, c)
       IN  f' = r.f /\ ret' = (IF r.ok THEN RetNone ELSE RetRaise)
    /\ op' = "set_p"
    /\ UNCHANGED x

NumRoots(c) == IF IsBad(c) THEN 0 ELSE Len(Poly1dRoots(c))

\* the cascade stays within the model's degree bound
Composable(F1, F2) ==
    /\ NumRoots(F1.b) + NumRoots(F2.b) <= MaxDeg
    /\ NumRoots(F1.a) + NumRoots(F2.a) <= MaxDeg

\* f * f
MulSelf ==
    /\ Composable(f, f)
    /\ LET r == Mul(f, f)
       IN  f' = r.self /\ ret' = r.ret
    /\ op' = "mul"
    /\ UNCHANGED x

\* f * r, r the filter the last call returned
MulRet ==
    /\ ret.kind \in {"filter", "pair"}
    /\ Composable(f, ret.F1)
    /\ LET r == Mul(f, ret.F1)
       IN  f' = r.self /\ ret' = r.ret
    /\ op' = "mul"
    /\ UNCHANGED x

\* f.flipc()
DoFlipc ==
    /\ LET r == Flipc(f)
       IN  f' = r.self /\ ret' = r.ret
    /\ op' = "flipc"
    /\ UNCHANGED x

\* f.match()
DoMatch ==
    /\ LET r == Match(f)
       IN  f' = r.self /\ ret' = r.ret
    /\ op' = "match"
    /\ UNCHANGED x

\* f.factorize()
DoFactorize ==
    /\ LET r == Factorize(f)
       IN  f' = r.self /\ ret' = r.ret
    /\ op' = "factorize"
    /\ UNCHANGED x

\* f.filter(x, causal)
DoFilter(causal) ==
    /\ LET r == Filter(f, x, causal)
       IN  f' = r.self /\ x' = r.x /\ ret' = r.ret
    /\ op' = "filter"

\* f.ir(N), as many samples as the caller's signal has
DoIr(N) ==
    /\ LET r == Ir(f, N)
       IN  f' = r.self /\ ret' = r.ret
    /\ op' = "ir"
    /\ UNCHANGED x

\* f = r, r a filter the last call returned
AssignFirst ==
    /\ ret.kind \in {"filter", "pair"}
    /\ f' = ret.F1
    /\ op' = "assign"
    /\ UNCHANGED <<x, ret>>

AssignSecond ==
    /\ ret.kind = "pair"
    /\ f' = ret.F2
    /\ op' = "assign"
    /\ UNCHANGED <<x, ret>>

Next ==
    \/ \E c \in CtorIn : Construct(c[1], c[2])
    \/ \E c \in BIn : SetB(c)
    \/ \E c \in AIn : SetA(c)
    \/ \E r \in ZIn : SetZ(r)
    \/ \E r \in PIn : SetP(r)
    \/ MulSelf
    \/ MulRet
    \/ DoFlipc
    \/ DoMatch
    \/ DoFactorize
    \/ \E causal \in BOOLEAN : DoFilter(causal)
    \/ DoIr(SigLen)
    \/ AssignFirst
    \/ AssignSecond

Spec == Init /\ [][Next]_vars

(***************************************************************************)
(* Vocabulary of the properties.                                           *)
(***************************************************************************)
SetterOps == {"set_b", "set_a", "set_z", "set_p"}

MethodOps == {"mul", "flipc", "match", "factorize", "filter", "ir"}

\* the filters the state holds: f and what the last call returned
Returned ==
    IF ret.kind = "filter" THEN {ret.F1}
    ELSE IF ret.kind = "pair" THEN {ret.F1, ret.F2} ELSE {}

\* the multiset of the entries of an array
SeqToBag(s) ==
    [v \in {s[k] : k \in DOMAIN s} |-> Cardinality({k \in DOMAIN s : s[k] = v})]

\* how many entries of rs equal r
Count(rs, r) == Cardinality({k \in DOMAIN rs : rs[k] = r})

RECURSIVE Mult(_, _)
\* the multiplicity of r as a root of the polynomial c (c[1] # 0, or c = [0],
\* which numpy reads as a constant without roots)
Mult(c, r) ==
    IF Len(c) <= 1 \/ Horner(c, r) # CZero THEN 0
    ELSE 1 + Mult(Deflate(c, r), r)

\* every value a root of the model can take
AllVals == {CZero} \cup {EigCands[k] : k \in DOMAIN EigCands}

\* rs is the multiset of the roots of the polynomial with coefficients c:
\* as many as its degree, each with its multiplicity, and c is its leading
\* coefficient times the monic polynomial with the roots rs
IsRootsOf(rs, c) ==
    LET pc == Poly1dCoeffs(c)
    IN  /\ Len(rs) = Len(pc) - 1
        /\ \A r \in AllVals : Count(rs, r) = Mult(pc, r)
        /\ \A k \in DOMAIN rs : rs[k] \in AllVals
        /\ pc = Scale(pc[1], NpPoly(rs))

\* c is monic with the roots rs
IsMonicOf(c, rs) ==
    /\ Len(c) = Len(rs) + 1
    /\ c[1] = COne
    /\ IsRootsOf(rs, c)

RECURSIVE ConvSum(_, _, _, _)
ConvSum(c1, c2, k, i) ==
    IF i > Len(c1) THEN CZero
    ELSE CAdd(IF k + 1 - i >= 1 /\ k + 1 - i <= Len(c2)
              THEN CMul(c1[i], c2[k + 1 - i]) ELSE CZero,
              ConvSum(c1, c2, k, i + 1))

\* the coefficients of the product of the polynomials c1 and c2
PolyMul(c1, c2) ==
    IF c1 = <<>> \/ c2 = <<>> THEN <<>>
    ELSE [k \in 1..(Len(c1) + Len(c2) - 1) |-> ConvSum(c1, c2, k, 1)]

(***************************************************************************)
(* C1.  In every reachable state the flag fir of a filter is true exactly  *)
(* when its denominator array a has length 1 (stated for the filters whose *)
(* a is a one-dimensional array).                                          *)
(***************************************************************************)
FirMatchesLen(F) == ~IsBad(F.a) => (F.fir <=> Len(F.a) = 1)

C1_FirIffLenA == \A F \in {f} \cup Returned : FirMatchesLen(F)

(***************************************************************************)
(* C2.  When match or factorize has been called on a filter whose          *)
(* denominator has more than one coefficient, it has returned no filter:   *)
(* None or an exception.                                                   *)
(***************************************************************************)
C2_NonFirRefused ==
    (op \in {"match", "factorize"} /\ ~IsBad(f.a) /\ Len(f.a) > 1)
        => ret.kind \in {"none", "raise"}

(***************************************************************************)
(* C3.  Whenever both views of the numerator (b and z) are arrays the      *)
(* setters accepted, z is the multiset of the roots of b, and likewise p   *)
(* for a; right after a successful set z (set p) the stored b (a) is the   *)
(* monic polynomial with those roots.                                      *)
(***************************************************************************)
C3_ViewsAgree ==
    /\ (~IsBad(f.b) /\ ~IsBad(f.z)) => IsRootsOf(f.z, f.b)
    /\ (~IsBad(f.a) /\ ~IsBad(f.p)) => IsRootsOf(f.p, f.a)
    /\ (op = "set_z" /\ ret.kind = "none") => IsMonicOf(f.b, f.z)
    /\ (op = "set_p" /\ ret.kind = "none") => IsMonicOf(f.a, f.p)

\* a successful set b of an array with a leading zero, a gain and a root,
\* on a filter that has a pole
C3_Witness ==
    /\ op = "set_b" /\ ret.kind = "none"
    /\ f.b = <<CZero, CTwo, <<-4, 0, 0>>>>
    /\ f.z = <<CTwo>>
    /\ ~IsBad(f.a) /\ ~IsBad(f.p) /\ Len(f.p) = 1

(***************************************************************************)
(* C4.  Whatever filter F1*F2 returns has as b the product of the          *)
(* polynomials F1.b and F2.b and as a the product of F1.a and F2.a,        *)
(* leading coefficients included; F1 is f, F2 is f or a returned filter.   *)
(***************************************************************************)
C4_MulIsProduct ==
    \A d \in {f} \cup Returned :
        LET r == Mul(f, d).ret
        IN  r.kind = "filter" =>
                /\ r.F1.b = PolyMul(f.b, d.b)
                /\ r.F1.a = PolyMul(f.a, d.a)

(***************************************************************************)
(* C5.  Whatever filter F1*F2 returns has as zeros the multiset union of   *)
(* the zeros of F1 and of F2, and as poles the union of their poles; and   *)
(* (F1*F2)*F3 and F1*(F2*F3) have the same zeros and the same poles.       *)
(***************************************************************************)
C5_MulUnitesRoots ==
    \A d \in {f} \cup Returned :
        LET r == Mul(f, d).ret
        IN  r.kind = "filter" =>
                /\ SeqToBag(r.F1.z) = SeqToBag(f.z) (+) SeqToBag(d.z)
                /\ SeqToBag(r.F1.p) = SeqToBag(f.p) (+) SeqToBag(d.p)
                /\ \A e \in {f} \cup Returned :
                       LET l  == Mul(r.F1, e).ret
                           de == Mul(d, e).ret
                           rr == Mul(f, de.F1).ret
                       IN  (l.kind = "filter" /\ de.kind = "filter" /\ rr.kind = "filter")
                               => /\ SeqToBag(l.F1.z) = SeqToBag(rr.F1.z)
                                  /\ SeqToBag(l.F1.p) = SeqToBag(rr.F1.p)

(***************************************************************************)
(* C6.  A setter call that raises leaves b, a, z, p and fir of the filter  *)
(* as they were before the call.                                           *)
(***************************************************************************)
C6_FailedSetterAtomic ==
    [][(op' \in SetterOps /\ ret'.kind = "raise") => f' = f]_vars

(***************************************************************************)
(* C7.  When factorize has been called on a filter whose denominator has   *)
(* length 1 (and whose arrays are well formed), it has returned a pair     *)
(* (Fmin, Fmax) whose zeros together are the zeros of the filter, Fmin     *)
(* holding those of magnitude <= 1 and Fmax those of magnitude > 1.        *)
(***************************************************************************)
C7_FactorizeSplits ==
    (/\ op = "factorize"
     /\ ~IsBad(f.a) /\ Len(f.a) = 1
     /\ ~IsBad(f.b) /\ ~IsBad(f.z))
        => /\ ret.kind = "pair"
           /\ SeqToBag(ret.F1.z) (+) SeqToBag(ret.F2.z) = SeqToBag(f.z)
           /\ \A k \in DOMAIN ret.F1.z : AbsLeqOne(ret.F1.z[k])
           /\ \A k \in DOMAIN ret.F2.z : AbsGtOne(ret.F2.z[k])

(***************************************************************************)
(* C8.  A call of compose, flipc, match, factorize, filter (causal or not) *)
(* or ir leaves the filter it is called on, and the caller's signal array, *)
(* as they were.                                                           *)
(***************************************************************************)
C8_MethodsDoNotMutate ==
    [][op' \in MethodOps => (f' = f /\ x' = x)]_vars

\* a method has returned a filter computed from a filter with a zero and a pole
C8_Witness ==
    /\ op \in {"flipc", "mul"}
    /\ ret.kind = "filter"
    /\ ~IsBad(f.z) /\ ~IsBad(f.p) /\ Len(f.z) >= 1 /\ Len(f.p) >= 1
    /\ ret.F1 # f

(***************************************************************************)
(* C9.  When match has been called on a filter whose denominator has       *)
(* length 1 (and whose arrays are well formed), it has returned a filter   *)
(* whose b is the reversed conjugate of the filter's b and whose a is the  *)
(* filter's a.                                                             *)
(***************************************************************************)
C9_MatchConjReverse ==
    (/\ op = "match"
     /\ ~IsBad(f.a) /\ Len(f.a) = 1
     /\ ~IsBad(f.b))
        => /\ ret.kind = "filter"
           /\ ret.F1.b = ConjSeq(Reverse(f.b))
           /\ ret.F1.a = f.a

(***************************************************************************)
(* C10.  When flipc has returned a filter, flipc of that filter has the b, *)
(* the a and the flag fir of the filter the first call was made on.        *)
(***************************************************************************)
C10_FlipInvolution ==
    (op = "flipc" /\ ret.kind = "filter")
        => LET r2 == Flipc(ret.F1).ret
           IN  /\ r2.kind = "filter"
               /\ r2.F1.b = f.b
               /\ r2.F1.a = f.a
               /\ r2.F1.fir = f.fir

====
